---- MODULE Spec2Model ----
(***************************************************************************)
(* Model of src/deta/demo1.py: the sequential scraping pipeline of main    *)
(* (category -> harvest links -> per product: scrape, download media,      *)
(* flatten, append -> task submission; completion report at the end).      *)
(*                                                                         *)
(* URLs and hrefs are sequences of tokens: "/", "?", "[", the digits       *)
(* "1" "2" "3", the letters "a" "b" and the token ".html".  Only the path  *)
(* of a URL is kept (all hrefs of the pool are rooted paths of the one     *)
(* site, so urljoin gives domain + path and unquote changes nothing).      *)
(***************************************************************************)
EXTENDS Integers, Sequences, FiniteSets, TLC

\* ------------------------------------------------------------------ bounds
NumCategories == 2
MaxAnchors == 2
\* Completion requests the service accepts in one run, at most.
MaxReports == 2
\* Longest URL, longest price text (in characters), longest media list and
\* most rows of the specification table of the pages that are parsed and
\* flattened on their own.
MaxUrlLen == 4
MaxPriceLen == 5
MaxMedia == 2
MaxRows == 2

\* --------------------------------------------------- program constants
DETAIL_RETRIES == 2
RETRY_DELAY == 5
WAIT_MIN == 1
WAIT_MAX == 1
RemoteRetryDelay == 120

\* ------------------------------------------------------- small helpers
Range(s) == {s[k] : k \in 1..Len(s)}

Digits == {"1", "2", "3"}

NoDup(s) == \A k1, k2 \in 1..Len(s) : s[k1] = s[k2] => k1 = k2

RECURSIVE SeqsUpTo(_, _)
SeqsUpTo(S, n) ==
  IF n = 0 THEN {<<>>}
  ELSE LET shorter == SeqsUpTo(S, n - 1)
       IN shorter \cup {Append(s, x) : s \in {t \in shorter : Len(t) = n - 1}, x \in S}

\* Length of the maximal run of digits of s that starts at position k.
RECURSIVE DigitRun(_, _)
DigitRun(s, k) ==
  IF k > Len(s) \/ s[k] \notin Digits THEN 0 ELSE 1 + DigitRun(s, k + 1)

Min(S) == CHOOSE x \in S : \A y \in S : x <= y

\* ---------------------------------------------------- the site (inputs)
UrlA == <<"/", "a", "/", "1", "2", ".html">>
UrlB == <<"/", "3", ".html">>
UrlC == <<"/", "a", "b">>
UrlD == <<"/", "1", "a", "/", "2", "b">>
UrlE == <<"/", "b", "/", "2", ".html">>

\* hrefs the anchors of the listing pages of category c can carry; <<>>
\* stands for a missing or empty href attribute, <<"/", "/", "[">> makes
\* urljoin raise ValueError.
HrefPool(c) ==
  IF c = 1
  THEN { UrlA, UrlA \o <<"?", "a">>, UrlB, UrlD, <<>>, <<"/", "/", "[">> }
  ELSE { UrlC, UrlE }

PageContents(c) == SeqsUpTo(HrefPool(c), MaxAnchors)

\* ------------------------------------------------------ normalize_link
\* href.split("?", 1)[0]
StripQuery(href) ==
  LET qs == {k \in 1..Len(href) : href[k] = "?"}
  IN IF qs = {} THEN href ELSE SubSeq(href, 1, Min(qs) - 1)

\* urljoin raises ValueError on an unbalanced bracket in the netloc.
NormalizeRaises(href) == "[" \in Range(StripQuery(href))

normalize_link(href) == StripQuery(href)

\* ------------------------------------------- get_product_details (pure part)
\* Start positions k of a match of  /(\d+)(?:\.html)?$  in path.
EndSlashMatches(path) ==
  {k \in 1..Len(path) :
     /\ path[k] = "/"
     /\ DigitRun(path, k + 1) >= 1
     /\ LET e == k + DigitRun(path, k + 1)
        IN \/ e = Len(path)
           \/ e + 1 = Len(path) /\ path[e + 1] = ".html"}

\* Start positions of a match of  (\d+)(?:\.html)?  in path.
DigitPositions(path) == {k \in 1..Len(path) : path[k] \in Digits}

\* re.search(a) or re.search(b): group 1 of the leftmost match of the first
\* pattern that matches, <<>> (the empty string) when neither matches.
ProductNumberOf(path) ==
  IF EndSlashMatches(path) # {}
  THEN LET k == Min(EndSlashMatches(path))
       IN SubSeq(path, k + 1, k + DigitRun(path, k + 1))
  ELSE IF DigitPositions(path) # {}
  THEN LET k == Min(DigitPositions(path))
       IN SubSeq(path, k, k + DigitRun(path, k) - 1)
  ELSE <<>>

\* Start positions of a match of  /(\d+)\.html  in the product URL.
PidMatches(url) ==
  {k \in 1..Len(url) :
     /\ url[k] = "/"
     /\ DigitRun(url, k + 1) >= 1
     /\ k + DigitRun(url, k + 1) + 1 <= Len(url)
     /\ url[k + DigitRun(url, k + 1) + 1] = ".html"}

\* re.search(...) is None: .group(1) raises AttributeError.
PidRaises(url) == PidMatches(url) = {}

PidOf(url) ==
  LET k == Min(PidMatches(url))
  IN SubSeq(url, k + 1, k + DigitRun(url, k + 1))

\* The text of a token sequence.
RECURSIVE Text(_)
Text(s) == IF s = <<>> THEN "" ELSE Head(s) \o Text(Tail(s))

\* A src is kept when it starts with "http" or "/".
KeptSrc(src) == src \in {"/i1.png", "/i2", "/i3.jpg"}

\* Order-preserving removal of the srcs that are dropped or already seen.
RECURSIVE UniqueKept(_, _)
UniqueKept(srcs, seenSrc) ==
  IF srcs = <<>> THEN <<>>
  ELSE IF KeptSrc(Head(srcs)) /\ Head(srcs) \notin seenSrc
       THEN <<Head(srcs)>> \o UniqueKept(Tail(srcs), seenSrc \cup {Head(srcs)})
       ELSE UniqueKept(Tail(srcs), seenSrc)

\* Keys that start with the SKU, model or brand label.
IdentityKey(key) == key \in {"sku", "model", "brand"}

FilterSpecs(raw) == SelectSeq(raw, LAMBDA sp : ~IdentityKey(sp.key))

\* ------------------------------------------------------- price cleaning
\* The text of a price element is a sequence of characters: digits, ",",
\* ".", " ", "nbsp" (U+00A0), "nnbsp" (U+202F), "rlm" (U+200F) and "cur" (a
\* currency sign).  soup.select_one gives None when the element is missing.
NoElement == [present |-> FALSE, text |-> <<>>]
Element(text) == [present |-> TRUE, text |-> text]

\* get_text(strip=True): leading and trailing white space is dropped.
RECURSIVE StripText(_)
StripText(t) ==
  IF t = <<>> THEN <<>>
  ELSE IF Head(t) \in {" ", "nbsp", "nnbsp"} THEN StripText(Tail(t))
  ELSE IF t[Len(t)] \in {" ", "nbsp", "nnbsp"}
       THEN StripText(SubSeq(t, 1, Len(t) - 1))
  ELSE t

\* Characters of the class [\d.,]
NumChars == Digits \cup {".", ","}

\* Length of the maximal run of [\d.,] of s that starts at position k.
RECURSIVE NumRun(_, _)
NumRun(s, k) ==
  IF k > Len(s) \/ s[k] \notin NumChars THEN 0 ELSE 1 + NumRun(s, k + 1)

\* The first match is taken from the text as it is: U+202F, U+00A0 and
\* U+200F are not removed before the search.
CleanPriceKeepsSpaces(el) ==
  IF ~el.present THEN <<>>
  ELSE LET raw == StripText(el.text)
           starts == {k \in 1..Len(raw) : raw[k] \in NumChars}
       IN IF starts = {} THEN <<>>
          ELSE LET k == Min(starts)
               IN SelectSeq(SubSeq(raw, k, k + NumRun(raw, k) - 1),
                            LAMBDA ch : ch \notin {",", " "})

\* Lines 151-156 (and 159-164): "" when the element is missing or holds no
\* match; otherwise the text without U+202F, U+00A0 and U+200F, its first
\* match of ([\d.,]+), and that match without "," and " ".
CleanPrice(el) ==
  IF ~el.present THEN <<>>
  ELSE LET raw == SelectSeq(StripText(el.text),
                            LAMBDA ch : ch \notin {"nnbsp", "nbsp", "rlm"})
           starts == {k \in 1..Len(raw) : raw[k] \in NumChars}
       IN IF starts = {} THEN <<>>
          ELSE LET k == Min(starts)
               IN SelectSeq(SubSeq(raw, k, k + NumRun(raw, k) - 1),
                            LAMBDA ch : ch \notin {",", " "})

EmptyDoc ==
  [gallery |-> <<>>, descImgs |-> <<>>, videoSrcs |-> <<>>, rawSpecs |-> <<>>,
   finalPrice |-> NoElement, oldPrice |-> NoElement]

\* The product page served for each URL of the site.
Site(url) ==
  CASE url = UrlA ->
         [gallery |-> <<"/i1.png", "data:x", "/i2", "/i1.png">>,
          descImgs |-> <<>>,
          videoSrcs |-> <<>>,
          rawSpecs |-> << [key |-> "brand", value |-> "acme"],
                          [key |-> "color", value |-> "red"] >>,
          finalPrice |-> Element(<<"rlm", "1", ",", "2", ".", "3", "nbsp", "cur">>),
          oldPrice |-> Element(<<"2", ",", "1", "nbsp", "cur">>)]
    [] url = UrlB ->
         [gallery |-> <<>>,
          descImgs |-> <<>>,
          videoSrcs |-> <<"/v1.webm", "/v2.mp4">>,
          rawSpecs |-> <<>>,
          finalPrice |-> Element(<<"3">>),
          oldPrice |-> NoElement]
    [] url = UrlD ->
         [gallery |-> <<"/i1.png">>,
          descImgs |-> <<"/i3.jpg">>,
          videoSrcs |-> <<"/v2.mp4">>,
          rawSpecs |-> <<>>,
          finalPrice |-> NoElement,
          oldPrice |-> NoElement]
    [] OTHER -> EmptyDoc

\* urlparse(product_url).path
UrlPath(url) == StripQuery(url)

\* The record get_product_details builds from the page doc it was served
\* for url.  oldPrice is computed (lines 158-164) and is not among the keys
\* of the returned dict (lines 307-324).
ParsePage(url, doc) ==
  LET price == CleanPrice(doc.finalPrice)
      oldPrice == CleanPrice(doc.oldPrice)
  IN [productNumber |-> ProductNumberOf(UrlPath(url)),
      url |-> url,
      price |-> price,
      images |-> UniqueKept(doc.gallery, {}),
      moreImages |-> UniqueKept(doc.descImgs, {}),
      videos |-> doc.videoSrcs,
      specifications |-> FilterSpecs(doc.rawSpecs)]

get_product_details(url) == ParsePage(url, Site(url))

NoDetails ==
  [productNumber |-> <<>>, url |-> <<>>, price |-> <<>>, images |-> <<>>,
   moreImages |-> <<>>, videos |-> <<>>, specifications |-> <<>>]

\* ------------------------------------------------------- media file names
\* os.path.splitext(src.split("?", 1)[0])[1]
ExtOf(src) ==
  CASE src = "/i1.png" -> ".png"
    [] src = "/i3.jpg" -> ".jpg"
    [] src = "/v1.webm" -> ".webm"
    [] src = "/v2.mp4" -> ".mp4"
    [] OTHER -> ""

ImageName(prefix, url, idx, src) ==
  prefix \o Text(PidOf(url)) \o "_" \o ToString(idx)
    \o (IF ExtOf(src) = "" THEN ".jpg" ELSE ExtOf(src))

ImageEntry(prefix, url, idx, src) ==
  [sourceImage |-> src, salezImage |-> "/img/" \o ImageName(prefix, url, idx, src)]

VideoExt(src) == IF ExtOf(src) = "" THEN ".mp4" ELSE ExtOf(src)

RawVideoName(url, idx, src) ==
  "vid" \o Text(PidOf(url)) \o "_" \o ToString(idx) \o VideoExt(src)

\* raw.replace(".webm", ".mp4")
Mp4VideoName(url, idx) == "vid" \o Text(PidOf(url)) \o "_" \o ToString(idx) \o ".mp4"

\* --------------------------------------------- flatten_media / flatten_specs
\* The strings are joined last to first.
RECURSIVE JoinReversed(_)
JoinReversed(strs) ==
  IF strs = <<>> THEN ""
  ELSE IF Len(strs) = 1 THEN strs[1]
  ELSE JoinReversed(Tail(strs)) \o ", " \o strs[1]

\* ", ".join(strs)
RECURSIVE Join(_)
Join(strs) ==
  IF strs = <<>> THEN ""
  ELSE IF Len(strs) = 1 THEN strs[1]
  ELSE strs[1] \o ", " \o Join(Tail(strs))

Field(entries, f) == [k \in 1..Len(entries) |-> entries[k][f]]

\* flatten_specs: out[f"key{idx}"] = spec["key"], out[f"value{idx}"] =
\* spec["value"] for idx = 1, 2, ...: the fields it adds, by name.
SpecFields(specs) ==
  [f \in {"key" \o ToString(k) : k \in 1..Len(specs)}
          \cup {"value" \o ToString(k) : k \in 1..Len(specs)} |->
     LET k == CHOOSE n \in 1..Len(specs) :
                f \in {"key" \o ToString(n), "value" \o ToString(n)}
     IN IF f = "key" \o ToString(k) THEN specs[k].key ELSE specs[k].value]

\* flatten_media, flatten_specs and the category of main (lines 604-611):
\* the media lists become joined strings, the specifications field is
\* replaced by the fields key{i}/value{i} (held in keyValues by name).
flatten(final, c) ==
  [productNumber |-> final.productNumber,
   url |-> final.url,
   price |-> final.price,
   images |-> Join(Field(final.images, "salezImage")),
   sourceImages |-> Join(Field(final.images, "sourceImage")),
   moreImages |-> Join(Field(final.moreImages, "salezImage")),
   sourceMoreImages |-> Join(Field(final.moreImages, "sourceImage")),
   videos |-> Join(Field(final.videos, "salezVideo")),
   sourceVideos |-> Join(Field(final.videos, "sourceVideo")),
   keyValues |-> SpecFields(final.specifications),
   categorySlug |-> c]

\* ------------------------------------------------------------- the state
VARIABLES
  pc,          \* position of main
  cat,         \* index of the category being processed
  files,       \* the JSON array in the output file of each category
  videoDir,    \* names of the files under VIDEO_DIR
  page, seen, all_links,          \* locals of extract_all_product_links
  requested,   \* page numbers requested by the current harvest, in order
  pageNew,     \* new_on_page of every page the current harvest completed
  harvestExit, \* how the harvest loop was left
  prevLinks,   \* all_links as it was when the last page was requested
  links, i,    \* main: the harvested list and the 1-based loop index
  processed,   \* URLs whose loop iteration has started, in order
  outcomes,    \* how the iteration of each processed URL ended, in order
  details,     \* main: the record returned by scrape_with_retries
  attempt, last_exc,              \* locals of scrape_with_retries
  excHist,     \* exceptions of the failed attempts for the current URL
  caught,      \* exception that reached the handler of the product loop
  phase, idx, out,                \* download_images / download_videos locals
  imgs, more,  \* main: results of the two download_images calls
  tried,       \* image requests made for the current product, and how each ended
  token,       \* bearer token held by the running remote call
  payload,     \* download_videos: entries collected so far
  chk,         \* download_videos: the last answer of check_video_exists
  wire,        \* the request made by the last step and how it ended
  slept,       \* seconds slept by the last step
  logged,      \* error message logged by the last step
  reports,     \* completion requests the task-completion service accepted
  submissions  \* calls of the task-submission function made for each category

vars ==
  << pc, cat, files, videoDir, page, seen, all_links, requested, pageNew,
     harvestExit, prevLinks, links, i, processed, outcomes, details, attempt,
     last_exc, excHist, caught, phase, idx, out, imgs, more, tried, token,
     payload, chk, wire, slept, logged, reports, submissions >>

Categories == 1..NumCategories

Exceptions == {"Timeout", "HTTPError"}

Tokens == {"tok1", "tok2"}

NoChk == [exists |-> FALSE, salezVideo |-> "none"]

NoWire == [svc |-> "none", ok |-> TRUE, body |-> <<>>]

Wire(svc, ok, body) == [svc |-> svc, ok |-> ok, body |-> body]

\* random.uniform(WAIT_MIN, WAIT_MAX), in whole seconds
Waits == WAIT_MIN..WAIT_MAX

\* A record left in an output file by an earlier run of the program.
StaleRecord == flatten([get_product_details(UrlB) EXCEPT !.images = <<>>,
                          !.moreImages = <<>>, !.videos = <<>>], 0)

\* Every output file holds what an earlier run left in it.
OldFile == <<StaleRecord>>

Env(w, s, l) == wire' = w /\ slept' = s /\ logged' = l

HarvestVars == << page, seen, all_links, requested, pageNew, harvestExit, prevLinks >>
ScrapeVars == << attempt, last_exc, excHist >>
MediaVars == << phase, idx, out, imgs, more, tried, payload, chk >>

Init ==
  /\ pc = "clear"
  /\ cat = 1
  /\ files = [c \in Categories |-> OldFile]
  /\ videoDir = {}
  /\ page = 0 /\ seen = {} /\ all_links = <<>>
  /\ requested = <<>> /\ pageNew = <<>> /\ harvestExit = "none"
  /\ prevLinks = <<>>
  /\ links = <<>> /\ i = 0 /\ processed = <<>> /\ outcomes = <<>>
  /\ details = NoDetails
  /\ attempt = 0 /\ last_exc = "none" /\ excHist = <<>>
  /\ caught = "none"
  /\ phase = "none" /\ idx = 0 /\ out = <<>>
  /\ imgs = <<>> /\ more = <<>> /\ tried = <<>>
  /\ token = "none"
  /\ payload = <<>>
  /\ chk = NoChk
  /\ wire = NoWire /\ slept = 0 /\ logged = "none"
  /\ reports = 0
  /\ submissions = [c \in Categories |-> 0]

\* ------------------------------------------------ main: clear old data
ClearOutputFile ==
  /\ pc = "clear"
  /\ \E ok \in BOOLEAN :
       /\ files' = IF ok THEN [files EXCEPT ![cat] = <<>>] ELSE files
       /\ Env(NoWire, 0, IF ok THEN "none" ELSE "Failed to clear or create output file")
  /\ pc' = "harvest"
  /\ page' = 1 /\ seen' = {} /\ all_links' = <<>>
  /\ requested' = <<>> /\ pageNew' = <<>> /\ harvestExit' = "none"
  /\ prevLinks' = <<>>
  /\ UNCHANGED << cat, videoDir, links, i, processed, outcomes, details, ScrapeVars,
                  caught, MediaVars, token, reports, submissions >>

\* ------------------------------------------- extract_all_product_links
\* The loop over the anchors of one page without the test on seen.
RECURSIVE CollectLinksNoSeen(_, _)
CollectLinksNoSeen(anchors, st) ==
  IF anchors = <<>> THEN st
  ELSE LET href == Head(anchors) IN
    IF href = <<>> THEN CollectLinksNoSeen(Tail(anchors), st)
    ELSE IF NormalizeRaises(href) THEN [st EXCEPT !.raised = TRUE]
    ELSE CollectLinksNoSeen(Tail(anchors),
           [st EXCEPT !.seen = @ \cup {normalize_link(href)},
                      !.all_links = Append(@, normalize_link(href)),
                      !.new_on_page = @ + 1])

\* The loop over the anchors of one page; st.raised is set when
\* normalize_link raises, and the anchors after it are not looked at.
RECURSIVE CollectLinks(_, _)
CollectLinks(anchors, st) ==
  IF anchors = <<>> THEN st
  ELSE LET href == Head(anchors) IN
    IF href = <<>> THEN CollectLinks(Tail(anchors), st)
    ELSE IF NormalizeRaises(href) THEN [st EXCEPT !.raised = TRUE]
    ELSE LET link == normalize_link(href) IN
      IF link \notin st.seen
      THEN CollectLinks(Tail(anchors),
             [st EXCEPT !.seen = @ \cup {link},
                        !.all_links = Append(@, link),
                        !.new_on_page = @ + 1])
      ELSE CollectLinks(Tail(anchors), st)

\* Stops after a page with at most one new link.
LastPageEarly(new_on_page) == new_on_page <= 1

\* if new_on_page == 0: break
LastPage(new_on_page) == new_on_page = 0

\* The failed fetch gives up the links collected so far.
HarvestFetchFailsEmpty ==
  /\ pc = "harvest"
  /\ requested' = Append(requested, page)
  /\ harvestExit' = "fetch"
  /\ pc' = "harvested"
  /\ prevLinks' = all_links
  /\ all_links' = <<>>
  /\ Env(Wire("page", FALSE, <<>>), 0, "Failed to fetch or parse page")
  /\ UNCHANGED << cat, files, videoDir, page, seen, pageNew, links, i, processed,
                  outcomes, details, ScrapeVars, caught, MediaVars, token, reports, submissions >>

HarvestFetchFails ==
  /\ pc = "harvest"
  /\ requested' = Append(requested, page)
  /\ harvestExit' = "fetch"
  /\ pc' = "harvested"
  /\ prevLinks' = all_links
  /\ Env(Wire("page", FALSE, <<>>), 0, "Failed to fetch or parse page")
  /\ UNCHANGED << cat, files, videoDir, page, seen, all_links, pageNew, links, i,
                  processed, outcomes, details, ScrapeVars, caught, MediaVars, token, reports, submissions >>

HarvestPage ==
  /\ pc = "harvest"
  /\ requested' = Append(requested, page)
  /\ prevLinks' = all_links
  /\ \E anchors \in PageContents(cat) :
       LET st == CollectLinks(anchors,
                   [seen |-> seen, all_links |-> all_links,
                    new_on_page |-> 0, raised |-> FALSE])
       IN /\ seen' = st.seen
          /\ all_links' = st.all_links
          /\ IF st.raised
             THEN /\ harvestExit' = "links"
                  /\ pc' = "harvested"
                  /\ UNCHANGED << page, pageNew >>
                  /\ Env(Wire("page", TRUE, anchors), 0,
                         "Error while parsing product links")
             ELSE /\ pageNew' = Append(pageNew, st.new_on_page)
                  /\ \E w \in Waits : Env(Wire("page", TRUE, anchors), w, "none")
                  /\ IF LastPage(st.new_on_page)
                     THEN /\ harvestExit' = "break"
                          /\ pc' = "harvested"
                          /\ page' = page
                     ELSE /\ harvestExit' = "none"
                          /\ pc' = "harvest"
                          /\ page' = page + 1
  /\ UNCHANGED << cat, files, videoDir, links, i, processed, outcomes, details,
                  ScrapeVars, caught, MediaVars, token, reports, submissions >>

\* main: links = extract_all_product_links(category_url)
HarvestReturn ==
  /\ pc = "harvested"
  /\ links' = all_links
  /\ i' = 1
  /\ processed' = <<>> /\ outcomes' = <<>>
  /\ pc' = "loop"
  /\ page' = 0 /\ seen' = {} /\ all_links' = <<>>
  /\ requested' = <<>> /\ pageNew' = <<>> /\ harvestExit' = "none"
  /\ prevLinks' = <<>>
  /\ Env(NoWire, 0, "none")
  /\ UNCHANGED << cat, files, videoDir, details, ScrapeVars, caught, MediaVars, token, reports, submissions >>

\* --------------------------------------------------- main: product loop
\* A category without links is left without a task submission.
NextProductSkipsEmpty ==
  /\ pc = "loop"
  /\ IF i > Len(links)
     THEN /\ IF links = <<>>
             THEN /\ pc' = IF cat = NumCategories THEN "comp_auth" ELSE "clear"
                  /\ cat' = cat + 1
                  /\ i' = 0
                  /\ UNCHANGED submissions
             ELSE /\ pc' = "sub_auth"
                  /\ submissions' = [submissions EXCEPT ![cat] = @ + 1]
                  /\ UNCHANGED << cat, i >>
          /\ processed' = <<>> /\ outcomes' = <<>>
          /\ UNCHANGED ScrapeVars
     ELSE /\ pc' = "scrape"
          /\ processed' = Append(processed, links[i])
          /\ attempt' = 1
          /\ UNCHANGED << cat, i, outcomes, last_exc, excHist, submissions >>
  /\ Env(NoWire, 0, "none")
  /\ UNCHANGED << files, videoDir, HarvestVars, links, details, caught,
                  MediaVars, token, reports >>

\* for i, url in enumerate(links, 1): the head of one iteration, or the end
\* of the loop, behind which main calls the task-submission function (lines
\* 635-651; the payload has one request and a type, so the ValueError of
\* line 476 is not raised).
NextProduct ==
  /\ pc = "loop"
  /\ IF i > Len(links)
     THEN /\ pc' = "sub_auth"
          /\ submissions' = [submissions EXCEPT ![cat] = @ + 1]
          /\ processed' = <<>> /\ outcomes' = <<>>
          /\ UNCHANGED ScrapeVars
     ELSE /\ pc' = "scrape"
          /\ processed' = Append(processed, links[i])
          /\ attempt' = 1
          /\ UNCHANGED << outcomes, last_exc, excHist, submissions >>
  /\ Env(NoWire, 0, "none")
  /\ UNCHANGED << cat, files, videoDir, HarvestVars, links, i, details, caught,
                  MediaVars, token, reports >>

\* Keeps the exception of the first failed attempt.
RecordExcFirst(old, e) == IF old = "none" THEN e ELSE old

\* scrape_with_retries: last_exc = e
RecordExc(old, e) == e

\* One pass of the retry loop of scrape_with_retries (DETAIL_RETRIES >= 1);
\* the failure of the last pass leaves the loop and raises last_exc.
ScrapeSucceeds ==
  /\ pc = "scrape"
  /\ attempt <= DETAIL_RETRIES
  /\ details' = get_product_details(links[i])
  /\ pc' = "checkpn"
  /\ \E w \in Waits : Env(Wire("product", TRUE, links[i]), w, "none")
  /\ UNCHANGED << cat, files, videoDir, HarvestVars, links, i, processed, outcomes,
                  ScrapeVars, caught, MediaVars, token, reports, submissions >>

ScrapeFails ==
  /\ pc = "scrape"
  /\ attempt <= DETAIL_RETRIES
  /\ \E e \in Exceptions :
       /\ last_exc' = RecordExc(last_exc, e)
       /\ excHist' = Append(excHist, e)
       /\ Env(Wire("product", FALSE, e), RETRY_DELAY, "Attempt failed")
  /\ IF attempt = DETAIL_RETRIES
     THEN /\ pc' = "except"
          /\ caught' = last_exc'
          /\ UNCHANGED attempt
     ELSE /\ pc' = "scrape"
          /\ attempt' = attempt + 1
          /\ UNCHANGED caught
  /\ UNCHANGED << cat, files, videoDir, HarvestVars, links, i, processed, outcomes,
                  details, MediaVars, token, reports, submissions >>

\* Never skips.
SkipsNothing(d) == FALSE

\* if not details.get("productNumber"): continue
SkipsProduct(d) == d.productNumber = <<>>

\* The productNumber test and, when it passes, the entry of
\* download_images(url, details["images"], ...) up to its loop.
CheckProductNumber ==
  /\ pc = "checkpn"
  /\ IF SkipsProduct(details)
     THEN /\ pc' = "loop"
          /\ i' = i + 1
          /\ details' = NoDetails
          /\ outcomes' = Append(outcomes, "skipped")
          /\ UNCHANGED << caught, MediaVars >>
          /\ Env(NoWire, 0, "Skipping product because productNumber is missing")
     ELSE IF PidRaises(links[i])
     THEN /\ pc' = "except"
          /\ caught' = "AttributeError"
          /\ UNCHANGED << i, outcomes, details, MediaVars >>
          /\ Env(NoWire, 0, "none")
     ELSE /\ pc' = "images"
          /\ phase' = "images" /\ idx' = 1 /\ out' = <<>>
          /\ UNCHANGED << i, outcomes, details, caught, imgs, more, tried, payload,
                          chk >>
          /\ Env(NoWire, 0, "none")
  /\ attempt' = 0 /\ last_exc' = "none" /\ excHist' = <<>>
  /\ UNCHANGED << cat, files, videoDir, HarvestVars, links, processed, token, reports, submissions >>

\* ------------------------------------------------------- download_images
ImageList == IF phase = "images" THEN details.images ELSE details.moreImages

ImagePrefix == IF phase = "images" THEN "img" ELSE "more"

\* A failed image drops the entries collected before it.
ImageOutAbort(o, ok, entry) == IF ok THEN Append(o, entry) ELSE <<>>

\* The list after one pass of the loop of download_images.
ImageOut(o, ok, entry) == IF ok THEN Append(o, entry) ELSE o

DownloadImage ==
  /\ pc = "images"
  /\ idx <= Len(ImageList)
  /\ \E outcome \in {"ok", "fetch", "write"} :
       /\ out' = ImageOut(out, outcome = "ok",
                          ImageEntry(ImagePrefix, links[i], idx, ImageList[idx]))
       /\ tried' = Append(tried, [phase |-> phase, src |-> ImageList[idx],
                                   ok |-> outcome = "ok"])
       /\ \E w \in Waits :
            Env(Wire("image", outcome # "fetch", ImageList[idx]), w,
                IF outcome = "ok" THEN "none" ELSE "Image failed")
  /\ idx' = idx + 1
  /\ UNCHANGED << pc, cat, files, videoDir, HarvestVars, links, i, processed,
                  outcomes, details, ScrapeVars, caught, phase, imgs, more, payload,
                  chk, token, reports, submissions >>

\* download_videos asks for a token only when there is a video to check.
ImagesReturnSkipsAuth ==
  /\ pc = "images"
  /\ idx > Len(ImageList)
  /\ IF phase = "images"
     THEN /\ imgs' = out
          /\ phase' = "more" /\ idx' = 1 /\ out' = <<>>
          /\ UNCHANGED << pc, more, payload, chk >>
     ELSE /\ more' = out
          /\ phase' = "videos" /\ idx' = 1 /\ out' = <<>>
          /\ payload' = <<>>
          /\ pc' = IF details.videos = <<>> THEN "append" ELSE "vid_auth"
          /\ UNCHANGED << imgs, chk >>
  /\ Env(NoWire, 0, "none")
  /\ UNCHANGED << cat, files, videoDir, HarvestVars, links, i, processed, outcomes,
                  details, ScrapeVars, caught, tried, token, reports, submissions >>

\* return out; after the second call, the entry of download_videos up to
\* token = get_auth_token().
ImagesReturn ==
  /\ pc = "images"
  /\ idx > Len(ImageList)
  /\ IF phase = "images"
     THEN /\ imgs' = out
          /\ phase' = "more" /\ idx' = 1 /\ out' = <<>>
          /\ UNCHANGED << pc, more, payload, chk >>
     ELSE /\ more' = out
          /\ phase' = "videos" /\ idx' = 1 /\ out' = <<>>
          /\ payload' = <<>>
          /\ pc' = "vid_auth"
          /\ UNCHANGED << imgs, chk >>
  /\ Env(NoWire, 0, "none")
  /\ UNCHANGED << cat, files, videoDir, HarvestVars, links, i, processed, outcomes,
                  details, ScrapeVars, caught, tried, token, reports, submissions >>

\* ------------------------------------------------------- get_auth_token
\* One pass of the loop of get_auth_token, called at position here; a
\* successful pass returns the token to the caller, which goes on at next.
AuthSucceeds(here, next) ==
  /\ pc = here
  /\ \E t \in Tokens :
       /\ token' = t
       /\ Env(Wire("auth", TRUE, t), 0, "none")
  /\ pc' = next

AuthFails(here) ==
  /\ pc = here
  /\ Env(Wire("auth", FALSE, <<>>), RemoteRetryDelay, "Auth error")
  /\ UNCHANGED << pc, token >>

\* ------------------------------------------------------- download_videos
\* Where download_videos goes on once the video at index k - 1 is done.
AfterVideo(k) == IF k > Len(details.videos) THEN "append" ELSE "vid_check"

VideoAuthSucceeds ==
  /\ AuthSucceeds("vid_auth", AfterVideo(1))
  /\ UNCHANGED << cat, files, videoDir, HarvestVars, links, i, processed, outcomes,
                  details, ScrapeVars, caught, MediaVars, reports, submissions >>

VideoAuthFails ==
  /\ AuthFails("vid_auth")
  /\ UNCHANGED << cat, files, videoDir, HarvestVars, links, i, processed, outcomes,
                  details, ScrapeVars, caught, MediaVars, reports, submissions >>

\* What the video-exists service can answer.
ExistsAnswers ==
  { [exists |-> TRUE, salezVideo |-> "/srv/x"],
    [exists |-> FALSE, salezVideo |-> "none"] }

\* The failure of the exists request is raised to download_videos.
VideoCheckGivesUp ==
  /\ pc = "vid_check"
  /\ Env(Wire("exists", FALSE, [token |-> token, url |-> details.videos[idx]]),
         0, "Check exists error")
  /\ pc' = "except"
  /\ caught' = "RemoteError"
  /\ UNCHANGED << cat, files, videoDir, HarvestVars, links, i, processed, outcomes,
                  details, ScrapeVars, MediaVars, token, reports, submissions >>

\* check_video_exists: one failed pass of its loop.
VideoCheckFails ==
  /\ pc = "vid_check"
  /\ Env(Wire("exists", FALSE, [token |-> token, url |-> details.videos[idx]]),
         RemoteRetryDelay, "Check exists error")
  /\ UNCHANGED << pc, cat, files, videoDir, HarvestVars, links, i, processed,
                  outcomes, details, ScrapeVars, caught, MediaVars, token, reports, submissions >>

\* A video the service reports as existing is recorded and downloaded
\* nevertheless.
VideoCheckDownloadsAnyway ==
  /\ pc = "vid_check"
  /\ \E d \in ExistsAnswers :
       /\ chk' = d
       /\ payload' = IF d.exists
                     THEN Append(payload, [sourceVideo |-> details.videos[idx],
                                           salezVideo |-> d.salezVideo])
                     ELSE payload
       /\ Env(Wire("exists", TRUE,
                   [token |-> token, url |-> details.videos[idx], answer |-> d]),
              0, "none")
  /\ pc' = "vid_dl"
  /\ UNCHANGED << cat, files, videoDir, HarvestVars, links, i, processed, outcomes,
                  details, ScrapeVars, caught, phase, idx, out, imgs, more, tried,
                  token, reports, submissions >>

\* check_video_exists returns d; download_videos reuses the served path when
\* d says the video exists, and goes on to the download otherwise.
VideoCheckSucceeds ==
  /\ pc = "vid_check"
  /\ \E d \in ExistsAnswers :
       /\ chk' = d
       /\ IF d.exists
          THEN /\ payload' = Append(payload, [sourceVideo |-> details.videos[idx],
                                              salezVideo |-> d.salezVideo])
               /\ idx' = idx + 1
               /\ pc' = AfterVideo(idx + 1)
               /\ \E w \in Waits :
                    Env(Wire("exists", TRUE,
                             [token |-> token, url |-> details.videos[idx], answer |-> d]),
                        w, "none")
          ELSE /\ pc' = "vid_dl"
               /\ UNCHANGED << payload, idx >>
               /\ Env(Wire("exists", TRUE,
                           [token |-> token, url |-> details.videos[idx], answer |-> d]),
                      0, "none")
  /\ UNCHANGED << cat, files, videoDir, HarvestVars, links, i, processed, outcomes,
                  details, ScrapeVars, caught, phase, out, imgs, more, tried, token, reports, submissions >>

\* The converted video is recorded and the raw file is left on disk.
VideoDownloadsKeepsRaw ==
  /\ pc = "vid_dl"
  /\ LET src == details.videos[idx]
         raw == RawVideoName(links[i], idx, src)
         mp4 == Mp4VideoName(links[i], idx)
         final_name == IF VideoExt(src) = ".webm" THEN mp4 ELSE raw
     IN /\ videoDir' = videoDir \cup {raw, final_name}
        /\ payload' = Append(payload, [sourceVideo |-> src,
                                       salezVideo |-> "/vid/" \o final_name])
        /\ \E w \in Waits : Env(Wire("video", TRUE, src), w, "none")
  /\ idx' = idx + 1
  /\ pc' = AfterVideo(idx + 1)
  /\ UNCHANGED << cat, files, HarvestVars, links, i, processed, outcomes, details,
                  ScrapeVars, caught, phase, out, imgs, more, tried, chk, token, reports, submissions >>

\* The download and convert step of one video succeeds.
VideoDownloads ==
  /\ pc = "vid_dl"
  /\ LET src == details.videos[idx]
         raw == RawVideoName(links[i], idx, src)
         mp4 == Mp4VideoName(links[i], idx)
         final_name == IF VideoExt(src) = ".webm" THEN mp4 ELSE raw
     IN /\ videoDir' = IF VideoExt(src) = ".webm"
                       THEN (videoDir \cup {mp4}) \ {raw}
                       ELSE videoDir \cup {raw}
        /\ payload' = Append(payload, [sourceVideo |-> src,
                                       salezVideo |-> "/vid/" \o final_name])
        /\ \E w \in Waits : Env(Wire("video", TRUE, src), w, "none")
  /\ idx' = idx + 1
  /\ pc' = AfterVideo(idx + 1)
  /\ UNCHANGED << cat, files, HarvestVars, links, i, processed, outcomes, details,
                  ScrapeVars, caught, phase, out, imgs, more, tried, chk, token, reports, submissions >>

\* The failure of one video is logged and the loop goes on, as for images.
VideoFailsSwallowed ==
  /\ pc = "vid_dl"
  /\ \E w \in Waits :
       Env(Wire("video", FALSE, details.videos[idx]), w, "Video download/convert failed")
  /\ idx' = idx + 1
  /\ pc' = AfterVideo(idx + 1)
  /\ UNCHANGED << cat, files, videoDir, HarvestVars, links, i, processed, outcomes,
                  details, ScrapeVars, caught, phase, out, imgs, more, tried, payload,
                  chk, token, reports, submissions >>

\* The download fails (no file is left), or the conversion of a .webm file
\* fails (the raw file stays): the exception is re-raised after random_wait.
VideoFails ==
  /\ pc = "vid_dl"
  /\ LET src == details.videos[idx]
         raw == RawVideoName(links[i], idx, src)
     IN \E step \in {"download", "convert"} :
          /\ step = "convert" => VideoExt(src) = ".webm"
          /\ videoDir' = IF step = "convert" THEN videoDir \cup {raw} ELSE videoDir
          /\ \E w \in Waits :
               Env(Wire("video", step # "download", src), w,
                   "Video download/convert failed")
  /\ pc' = "except"
  /\ caught' = "VideoError"
  /\ UNCHANGED << cat, files, HarvestVars, links, i, processed, outcomes, details,
                  ScrapeVars, MediaVars, token, reports, submissions >>

\* ------------------------------------------- main: assemble, flatten, append
FlatRecord ==
  flatten([details EXCEPT !.images = imgs, !.moreImages = more, !.videos = payload],
          cat)

\* The file after the read-modify-write of the append step.
AppendRecord(content, flat) == Append(content, flat)

\* vids = download_videos(...) has returned: flatten, append to the output
\* file (the failure is logged), random_wait, next iteration.
AppendProduct ==
  /\ pc = "append"
  /\ \E ok \in BOOLEAN :
       /\ files' = IF ok
                   THEN [files EXCEPT ![cat] = AppendRecord(@, FlatRecord)]
                   ELSE files
       /\ outcomes' = Append(outcomes, IF ok THEN "saved" ELSE "append_failed")
       /\ \E w \in Waits :
            Env(NoWire, w, IF ok THEN "none" ELSE "Failed to append product")
  /\ pc' = "loop"
  /\ i' = i + 1
  /\ details' = NoDetails
  /\ phase' = "none" /\ idx' = 0 /\ out' = <<>> /\ imgs' = <<>> /\ more' = <<>>
  /\ tried' = <<>> /\ payload' = <<>> /\ chk' = NoChk /\ token' = "none"
  /\ UNCHANGED << cat, videoDir, HarvestVars, links, processed, ScrapeVars, caught, reports, submissions >>

\* The failure of one product ends the product loop of the category.
ProductFailsStops ==
  /\ pc = "except"
  /\ \E w \in Waits : Env(NoWire, w, "Error processing")
  /\ pc' = "sub_auth"
  /\ outcomes' = Append(outcomes, caught)
  /\ caught' = "none"
  /\ details' = NoDetails
  /\ phase' = "none" /\ idx' = 0 /\ out' = <<>> /\ imgs' = <<>> /\ more' = <<>>
  /\ tried' = <<>> /\ payload' = <<>> /\ chk' = NoChk /\ token' = "none"
  /\ attempt' = 0 /\ last_exc' = "none" /\ excHist' = <<>>
  /\ UNCHANGED << cat, files, videoDir, HarvestVars, links, i, processed, reports, submissions >>

\* The failure of one product leaves main.
ProductFailsAborts ==
  /\ pc = "except"
  /\ Env(NoWire, 0, "none")
  /\ pc' = "aborted"
  /\ UNCHANGED << cat, files, videoDir, HarvestVars, links, i, processed, outcomes,
                  details, ScrapeVars, caught, MediaVars, token, reports, submissions >>

\* except Exception: logger.exception("Error processing %s", url); then
\* random_wait and the next iteration.
ProductFails ==
  /\ pc = "except"
  /\ \E w \in Waits : Env(NoWire, w, "Error processing")
  /\ pc' = "loop"
  /\ i' = i + 1
  /\ outcomes' = Append(outcomes, caught)
  /\ caught' = "none"
  /\ details' = NoDetails
  /\ phase' = "none" /\ idx' = 0 /\ out' = <<>> /\ imgs' = <<>> /\ more' = <<>>
  /\ tried' = <<>> /\ payload' = <<>> /\ chk' = NoChk /\ token' = "none"
  /\ attempt' = 0 /\ last_exc' = "none" /\ excHist' = <<>>
  /\ UNCHANGED << cat, files, videoDir, HarvestVars, links, processed, reports, submissions >>

\* --------------------- save_new_server_task_for_save_product_function
SubmitAuthSucceeds ==
  /\ AuthSucceeds("sub_auth", "sub_post")
  /\ UNCHANGED << cat, files, videoDir, HarvestVars, links, i, processed, outcomes,
                  details, ScrapeVars, caught, MediaVars, reports, submissions >>

SubmitAuthFails ==
  /\ AuthFails("sub_auth")
  /\ UNCHANGED << cat, files, videoDir, HarvestVars, links, i, processed, outcomes,
                  details, ScrapeVars, caught, MediaVars, reports, submissions >>

\* The failed POST is logged and main goes on with the next category.
SubmitPostFailsMovesOn ==
  /\ pc = "sub_post"
  /\ Env(Wire("submit", FALSE, [token |-> token, category |-> cat]),
         RemoteRetryDelay, "Error posting new server task request")
  /\ pc' = IF cat = NumCategories THEN "comp_auth" ELSE "clear"
  /\ cat' = cat + 1
  /\ token' = "none"
  /\ links' = <<>> /\ i' = 0
  /\ UNCHANGED << files, videoDir, HarvestVars, processed, outcomes, details,
                  ScrapeVars, caught, MediaVars, reports, submissions >>

\* The failed POST sends the call back to get_auth_token, as in
\* complete_task.
SubmitPostFailsReauth ==
  /\ pc = "sub_post"
  /\ Env(Wire("submit", FALSE, [token |-> token, category |-> cat]),
         RemoteRetryDelay, "Error posting new server task request")
  /\ pc' = "sub_auth"
  /\ UNCHANGED << cat, files, videoDir, HarvestVars, links, i, processed,
                  outcomes, details, ScrapeVars, caught, MediaVars, token, reports,
                  submissions >>

SubmitPostFails ==
  /\ pc = "sub_post"
  /\ Env(Wire("submit", FALSE, [token |-> token, category |-> cat]),
         RemoteRetryDelay, "Error posting new server task request")
  /\ UNCHANGED << pc, cat, files, videoDir, HarvestVars, links, i, processed,
                  outcomes, details, ScrapeVars, caught, MediaVars, token, reports, submissions >>

\* The POST succeeds and the call returns: main goes on with the next
\* category, or with the completion report after the last one.
SubmitPostSucceeds ==
  /\ pc = "sub_post"
  /\ Env(Wire("submit", TRUE, [token |-> token, category |-> cat]), 0, "none")
  /\ pc' = IF cat = NumCategories THEN "comp_auth" ELSE "clear"
  /\ cat' = cat + 1
  /\ token' = "none"
  /\ links' = <<>> /\ i' = 0
  /\ UNCHANGED << files, videoDir, HarvestVars, processed, outcomes, details,
                  ScrapeVars, caught, MediaVars, reports, submissions >>

\* -------------------------------------------------------- complete_task
\* The report counts the categories that saved a product as successes and
\* the others as failures.
CompletePayloadBySaved(t) ==
  LET saved == {c \in Categories :
                  \E k \in 1..Len(files[c]) : files[c][k].categorySlug = c}
  IN [token |-> t, failedCount |-> NumCategories - Cardinality(saved),
      successCount |-> Cardinality(saved)]

\* main: failed = 0, success = len(task_categories), passed to
\* complete_task, which builds the payload inside its loop.
CompletePayload(t) ==
  [token |-> t, failedCount |-> 0, successCount |-> NumCategories]

CompleteAuthSucceeds ==
  /\ AuthSucceeds("comp_auth", "comp_post")
  /\ UNCHANGED << cat, files, videoDir, HarvestVars, links, i, processed, outcomes,
                  details, ScrapeVars, caught, MediaVars, reports, submissions >>

CompleteAuthFails ==
  /\ AuthFails("comp_auth")
  /\ UNCHANGED << cat, files, videoDir, HarvestVars, links, i, processed, outcomes,
                  details, ScrapeVars, caught, MediaVars, reports, submissions >>

\* One pass of the try block of complete_task raises: sleep, then the loop
\* starts over with get_auth_token.  The exception comes from the request
\* or from raise_for_status (the service did not accept the report, or its
\* answer was lost), or from resp.json() of line 534, which is evaluated for
\* the log before the status is looked at and raises on a body that is not
\* JSON whatever the status is: then the service has accepted the report.
CompletePostFails ==
  /\ pc = "comp_post"
  /\ \E served \in BOOLEAN :
       /\ served => reports + 1 < MaxReports
       /\ reports' = IF served THEN reports + 1 ELSE reports
  /\ Env(Wire("complete", FALSE, CompletePayload(token)), RemoteRetryDelay,
         "Error in complete_task")
  /\ pc' = "comp_auth"
  /\ UNCHANGED << cat, files, videoDir, HarvestVars, links, i, processed, outcomes,
                  details, ScrapeVars, caught, MediaVars, token, submissions >>

\* The service accepts the report and answers with JSON: return resp.json().
CompletePostSucceeds ==
  /\ pc = "comp_post"
  /\ Env(Wire("complete", TRUE, CompletePayload(token)), 0, "none")
  /\ reports' = reports + 1
  /\ pc' = "done"
  /\ UNCHANGED << cat, files, videoDir, HarvestVars, links, i, processed, outcomes,
                  details, ScrapeVars, caught, MediaVars, token, submissions >>

\* ------------------------------------------------------- specification
Next ==
  \/ ClearOutputFile
  \/ HarvestFetchFails
  \/ HarvestPage
  \/ HarvestReturn
  \/ NextProduct
  \/ ScrapeSucceeds
  \/ ScrapeFails
  \/ CheckProductNumber
  \/ DownloadImage
  \/ ImagesReturn
  \/ VideoAuthSucceeds
  \/ VideoAuthFails
  \/ VideoCheckFails
  \/ VideoCheckSucceeds
  \/ VideoDownloads
  \/ VideoFails
  \/ AppendProduct
  \/ ProductFails
  \/ SubmitAuthSucceeds
  \/ SubmitAuthFails
  \/ SubmitPostFails
  \/ SubmitPostSucceeds
  \/ CompleteAuthSucceeds
  \/ CompleteAuthFails
  \/ CompletePostFails
  \/ CompletePostSucceeds

Spec == Init /\ [][Next]_vars

\* main always takes its next step, and a remote service that is called
\* again and again eventually answers successfully (the premise under which
\* the remote calls are retried without a bound).  Inside complete_task the
\* POST is not continuously pending (each failure goes back to
\* get_auth_token), hence strong fairness there.
FairSpec ==
  /\ Spec
  /\ WF_vars(Next)
  /\ WF_vars(VideoAuthSucceeds)
  /\ WF_vars(VideoCheckSucceeds)
  /\ WF_vars(SubmitAuthSucceeds)
  /\ WF_vars(SubmitPostSucceeds)
  /\ WF_vars(CompleteAuthSucceeds)
  /\ SF_vars(CompletePostSucceeds)

\* ------------------------------------ extraction and flattening on their own
\* get_product_details and the flatten step applied to one page: the page
\* that was served (URL and content) and the lists the downloads returned
\* are drawn from bounded sets.
UrlChars == {"/", "1", "2", "a", ".html", "?"}

PriceChars == {"1", "2", ",", ".", " ", "nbsp", "nnbsp", "rlm", "cur"}

SpecRows ==
  { [key |-> "brand", value |-> "acme"], [key |-> "sku", value |-> "12"],
    [key |-> "color", value |-> "red"], [key |-> "size", value |-> "xl"] }

ImageEntries ==
  { [sourceImage |-> "/i1.png", salezImage |-> "/img/img3_1.png"],
    [sourceImage |-> "/i3.jpg", salezImage |-> "/img/img3_2.jpg"] }

VideoEntries ==
  { [sourceVideo |-> "/v1.webm", salezVideo |-> "/vid/vid3_1.mp4"],
    [sourceVideo |-> "/v2.mp4", salezVideo |-> "/srv/x"] }

\* Price texts longer than MaxPriceLen: "\u200f1\u202f2,1.2\xa0₪" and "₪ 1,2".
PriceSamples ==
  { <<"rlm", "1", "nnbsp", "2", ",", "1", ".", "2", "nbsp", "cur">>,
    <<"cur", " ", "1", ",", "2", "1", "2">> }

NoMedia == [imgs |-> <<>>, more |-> <<>>, vids |-> <<>>]

\* One input: the page served for url and what the downloads return.
PageInput(url, doc, media) == [url |-> url, doc |-> doc, media |-> media]

\* All sequences over S of length up to n.
SeqsOver(S, n) == UNION {[1..k -> S] : k \in 0..n}

\* The page that was served and the lists the downloads return.  The
\* inputs vary one part at a time: the URL, the text of the final-price
\* element, the text of the old-price element, or the specification table
\* together with the lists of the downloads.
PageInit ==
  /\ pc = "page"
  /\ \/ \E u \in SeqsOver(UrlChars, MaxUrlLen) :
          wire = Wire("page", TRUE, PageInput(u, EmptyDoc, NoMedia))
     \/ \E t \in SeqsOver(PriceChars, MaxPriceLen) \cup PriceSamples :
          wire = Wire("page", TRUE,
                      PageInput(UrlB, [EmptyDoc EXCEPT !.finalPrice = Element(t)],
                                NoMedia))
     \/ \E t \in SeqsOver(PriceChars, 2) \ {<<>>} :
          wire = Wire("page", TRUE,
                      PageInput(UrlB, [EmptyDoc EXCEPT !.oldPrice = Element(t)],
                                NoMedia))
     \/ \E rows \in SeqsOver(SpecRows, MaxRows),
           a \in SeqsOver(ImageEntries, MaxMedia),
           b \in SeqsOver(ImageEntries, MaxMedia),
           v \in SeqsOver(VideoEntries, MaxMedia) :
          wire = Wire("page", TRUE,
                      PageInput(UrlB, [EmptyDoc EXCEPT !.rawSpecs = rows],
                                [imgs |-> a, more |-> b, vids |-> v]))
  /\ cat = 1
  /\ files = [c \in Categories |-> <<>>]
  /\ videoDir = {}
  /\ page = 0 /\ seen = {} /\ all_links = <<>>
  /\ requested = <<>> /\ pageNew = <<>> /\ harvestExit = "none"
  /\ prevLinks = <<>>
  /\ links = <<>> /\ i = 0 /\ processed = <<>> /\ outcomes = <<>>
  /\ details = NoDetails
  /\ attempt = 0 /\ last_exc = "none" /\ excHist = <<>>
  /\ caught = "none"
  /\ phase = "none" /\ idx = 0 /\ out = <<>>
  /\ imgs = <<>> /\ more = <<>> /\ tried = <<>>
  /\ token = "none"
  /\ payload = <<>>
  /\ chk = NoChk
  /\ slept = 0 /\ logged = "none"
  /\ reports = 0
  /\ submissions = [c \in Categories |-> 0]

\* get_product_details returns the record of the page; the downloads return
\* their lists.
ParseStep ==
  /\ pc = "page"
  /\ details' = ParsePage(wire.body.url, wire.body.doc)
  /\ imgs' = wire.body.media.imgs
  /\ more' = wire.body.media.more
  /\ payload' = wire.body.media.vids
  /\ pc' = "parsed"
  /\ UNCHANGED << cat, files, videoDir, HarvestVars, links, i, processed, outcomes,
                  ScrapeVars, caught, phase, idx, out, tried, token, chk, wire,
                  slept, logged, reports, submissions >>

\* flatten_media, flatten_specs, and the record is written to the file.
FlattenStep ==
  /\ pc = "parsed"
  /\ files' = [files EXCEPT ![cat] = AppendRecord(@, FlatRecord)]
  /\ pc' = "flat"
  /\ UNCHANGED << cat, videoDir, HarvestVars, links, i, processed, outcomes,
                  details, ScrapeVars, caught, MediaVars, token, wire, slept,
                  logged, reports, submissions >>

PageNext == ParseStep \/ FlattenStep

PageSpec == PageInit /\ [][PageNext]_vars

\* ================================================================ claims
InIteration ==
  pc \in {"scrape", "checkpn", "images", "vid_auth", "vid_check", "vid_dl",
          "append", "except"}

\* Records of the current run in the output file of category c.
NewRecords(c) == SelectSeq(files[c], LAMBDA r : r.categorySlug = c)

\* C1: scrape_with_retries calls get_product_details at most DETAIL_RETRIES
\* times; the first successful call ends it with that call's record (the
\* calls made are the failed ones and this one); when DETAIL_RETRIES calls
\* have failed, the exception that reaches the caller is that of the last.
C1_ScrapeRetries ==
  /\ Len(excHist) <= DETAIL_RETRIES
  /\ pc = "scrape" => attempt <= DETAIL_RETRIES /\ Len(excHist) = attempt - 1
  /\ pc = "checkpn" =>
       /\ Len(excHist) + 1 = attempt
       /\ attempt <= DETAIL_RETRIES
       /\ details = get_product_details(links[i])
       /\ wire = Wire("product", TRUE, links[i])
       /\ caught = "none"
  /\ caught \in Exceptions =>
       /\ pc = "except"
       /\ Len(excHist) = DETAIL_RETRIES
       /\ caught = excHist[DETAIL_RETRIES]
       /\ wire = Wire("product", FALSE, caught)

C1_Witness ==
  /\ pc = "except"
  /\ caught \in Exceptions
  /\ Len(excHist) = DETAIL_RETRIES
  /\ excHist[1] # excHist[DETAIL_RETRIES]

\* C2: whatever the outcome of the URLs before it (scrape retries exhausted,
\* media error, append error), every URL of the harvested list is processed
\* in list order, each once: the iterations started are a prefix of the
\* list, each ended iteration has one outcome, and the loop is left only
\* behind the last URL.
C2_EveryUrlProcessed ==
  /\ NoDup(links)
  /\ pc = "loop" =>
       /\ i <= Len(links) + 1
       /\ processed = SubSeq(links, 1, i - 1)
       /\ Len(outcomes) = i - 1
  /\ InIteration =>
       /\ i <= Len(links)
       /\ processed = SubSeq(links, 1, i)
       /\ Len(outcomes) = i - 1
  /\ pc \in {"sub_auth", "sub_post"} => i = Len(links) + 1

C2_Witness ==
  /\ pc = "loop"
  /\ Len(outcomes) = 3
  /\ outcomes[1] = "append_failed"
  /\ outcomes[2] \in Exceptions \cup {"AttributeError"}
  /\ outcomes[3] = "saved"

\* C3: a failed download or convert step of one video leaves download_videos
\* as an exception (the failed video is the last one requested, the entries
\* collected before it are not returned) and main skips the product: no
\* record of it is in the output file, and the next URL is processed.
C3_VideoFailureSkipsProduct ==
  /\ logged = "Video download/convert failed" => pc = "except" /\ caught = "VideoError"
  /\ caught = "VideoError" =>
       /\ pc = "except"
       /\ wire.svc = "video"
       /\ wire.body = details.videos[idx]
       /\ Len(payload) = idx - 1
       /\ \A k \in 1..Len(NewRecords(cat)) : NewRecords(cat)[k].url # links[i]
  /\ \A j \in 1..Len(outcomes) :
       outcomes[j] = "VideoError" =>
         \A k \in 1..Len(NewRecords(cat)) : NewRecords(cat)[k].url # processed[j]

C3_Witness ==
  /\ Len(outcomes) = 2
  /\ outcomes[1] = "VideoError"
  /\ outcomes[2] = "saved"
  /\ Len(NewRecords(cat)) = 1
  /\ NewRecords(cat)[1].url = processed[2]

\* The image requests made by the download_images call of phase ph.
TriedIn(ph) == SelectSeq(tried, LAMBDA t : t.phase = ph)

\* The srcs of the requests that succeeded, in request order.
OkSrcs(ts) == Field(SelectSeq(ts, LAMBDA t : t.ok), "src")

\* C4: in download_images a failed image is logged and left out, no
\* exception leaves the loop, every URL of the list is requested, and the
\* returned list holds the URLs that downloaded, in input order.
C4_ImageFailuresSkipped ==
  /\ logged = "Image failed" => pc = "images" /\ caught = "none"
  /\ wire.svc = "image" => pc = "images"
  /\ pc = "images" =>
       /\ Field(TriedIn(phase), "src") = SubSeq(ImageList, 1, idx - 1)
       /\ Field(out, "sourceImage") = OkSrcs(TriedIn(phase))
  /\ phase \in {"more", "videos"} =>
       /\ Field(TriedIn("images"), "src") = details.images
       /\ Field(imgs, "sourceImage") = OkSrcs(TriedIn("images"))
  /\ phase = "videos" =>
       /\ Field(TriedIn("more"), "src") = details.moreImages
       /\ Field(more, "sourceImage") = OkSrcs(TriedIn("more"))

C4_Witness ==
  /\ pc = "images"
  /\ phase = "more"
  /\ Len(tried) = 2
  /\ ~tried[1].ok
  /\ tried[2].ok
  /\ Len(imgs) = 1
  /\ imgs[1].sourceImage = details.images[2]

\* C5: a product whose record has an empty productNumber is skipped: no
\* image or video request is made for it, and every record of every output
\* file has a non-empty productNumber.
C5_NoRecordWithoutProductNumber ==
  /\ \A c \in Categories : \A k \in 1..Len(files[c]) : files[c][k].productNumber # <<>>
  /\ pc \in {"images", "vid_auth", "vid_check", "vid_dl", "append"} =>
       details.productNumber # <<>>
  /\ wire.svc \in {"image", "exists", "video"} => ProductNumberOf(links[i]) # <<>>
  /\ \A j \in 1..Len(outcomes) :
       ProductNumberOf(processed[j]) = <<>> =>
         outcomes[j] \in {"skipped"} \cup Exceptions

C5_Witness ==
  /\ pc = "loop"
  /\ Len(outcomes) >= 1
  /\ outcomes[Len(outcomes)] = "skipped"
  /\ ProductNumberOf(processed[Len(processed)]) = <<>>
  /\ logged = "Skipping product because productNumber is missing"

RECURSIVE Sum(_)
Sum(ns) == IF ns = <<>> THEN 0 ELSE Head(ns) + Sum(Tail(ns))

\* Positions of the anchors the link loop looks at and keeps: those with a
\* href, before the first href on which urljoin raises.
Usable(anchors) ==
  {k \in 1..Len(anchors) :
     /\ anchors[k] # <<>>
     /\ \A m \in 1..k : "[" \notin Range(StripQuery(anchors[m]))}

\* Positions at which a link not in known occurs for the first time.
FirstPositions(anchors, known) ==
  {k \in Usable(anchors) :
     /\ StripQuery(anchors[k]) \notin Range(known)
     /\ \A m \in Usable(anchors) :
          m < k => StripQuery(anchors[m]) # StripQuery(anchors[k])}

RECURSIVE LinksAt(_, _, _)
LinksAt(anchors, S, k) ==
  IF k > Len(anchors) THEN <<>>
  ELSE (IF k \in S THEN <<StripQuery(anchors[k])>> ELSE <<>>)
         \o LinksAt(anchors, S, k + 1)

\* The links of a page that were not known before it, in anchor order.
FirstOccurrences(anchors, known) == LinksAt(anchors, FirstPositions(anchors, known), 1)

Harvesting == pc \in {"harvest", "harvested"}

\* C6: pages 1, 2, 3, ... are requested in order and the harvest stops
\* right after the first page without a previously-unseen link: every page
\* completed before the last one brought a new link, and when page n is the
\* first without one, n requests were made and the links are those counted.
C6_StopsAtFirstEmptyPage ==
  /\ requested = [k \in 1..Len(requested) |-> k]
  /\ \A k \in 1..(Len(pageNew) - 1) : pageNew[k] > 0
  /\ pc = "harvest" =>
       /\ Len(requested) = page - 1
       /\ Len(pageNew) = page - 1
       /\ \A k \in 1..Len(pageNew) : pageNew[k] > 0
       /\ wire.svc = "page" => FirstOccurrences(wire.body, prevLinks) # <<>>
  /\ harvestExit = "break" =>
       /\ pc = "harvested"
       /\ Len(requested) = page
       /\ Len(pageNew) = page
       /\ pageNew[page] = 0
       /\ FirstOccurrences(wire.body, prevLinks) = <<>>
       /\ Len(all_links) = Sum(pageNew)

C6_Witness ==
  /\ harvestExit = "break"
  /\ pageNew = <<1, 1, 1, 0>>
  /\ requested = <<1, 2, 3, 4>>
  /\ Len(all_links) = 3

\* C7: the link list never holds a URL twice and lists the URLs in the
\* order of first discovery: each fetched page adds, behind the links known
\* before it, its not yet known links in anchor order (after the query
\* string is dropped), on every exit path.
C7_UniqueInDiscoveryOrder ==
  /\ NoDup(all_links)
  /\ NoDup(links)
  /\ Harvesting => seen = Range(all_links)
  /\ Harvesting /\ wire.svc = "page" /\ wire.ok =>
       all_links = prevLinks \o FirstOccurrences(wire.body, prevLinks)

C7_Witness ==
  /\ pc = "harvest"
  /\ prevLinks = <<UrlB>>
  /\ wire = Wire("page", TRUE, <<UrlB, UrlA \o <<"?", "a">> >>)
  /\ all_links = <<UrlB, UrlA>>

\* The state in which the fetch of page n = page has failed: nothing is
\* raised, page n is the last page requested and the list is that of the
\* pages 1..n-1.
C8_FetchFailure ==
  harvestExit = "fetch" =>
    /\ pc = "harvested"
    /\ caught = "none"
    /\ wire = Wire("page", FALSE, <<>>)
    /\ all_links = prevLinks
    /\ Len(all_links) = Sum(pageNew)
    /\ Len(pageNew) = page - 1
    /\ requested = [k \in 1..page |-> k]
    /\ page = 1 => all_links = <<>>

\* The step behind the return: the product loop of the same category
\* starts over the returned list.
C8_ReturnedToLoop ==
  pc = "harvested" => links' = all_links /\ i' = 1 /\ pc' = "loop" /\ cat' = cat

\* C8: when the fetch of page n fails, extract_all_product_links raises
\* nothing and returns the links of pages 1..n-1 (none when n = 1), page n
\* being the last one requested; main then runs the product loop over the
\* returned list.
C8_FetchFailureReturnsPartial == []C8_FetchFailure /\ [][C8_ReturnedToLoop]_vars

C8_Witness ==
  /\ harvestExit = "fetch"
  /\ page = 3
  /\ Len(all_links) = 2

CompletePcs == {"comp_auth", "comp_post", "done"}

\* main is inside or behind complete_task exactly when the loop over the
\* categories is behind the last one, and it ends nowhere but behind the
\* answer of complete_task.
C9_AfterLastCategory ==
  /\ pc \in CompletePcs <=> cat = NumCategories + 1
  /\ pc # "done" => ENABLED Next

RemoteFailed(svc) == wire.svc = svc /\ ~wire.ok

\* The failed step slept the retry delay and raised nothing.
RemoteRetried == slept = RemoteRetryDelay /\ caught = "none"

\* Behind a failed request the call is at a new attempt, which can fail
\* again; behind a successful one the caller holds the answer.
C10_NeverGivesUp ==
  /\ caught \in {"none", "AttributeError", "VideoError"} \cup Exceptions
  /\ RemoteFailed("auth") =>
       /\ pc \in {"vid_auth", "sub_auth", "comp_auth"}
       /\ RemoteRetried
       /\ ENABLED (VideoAuthFails \/ SubmitAuthFails \/ CompleteAuthFails)
  /\ RemoteFailed("exists") =>
       pc = "vid_check" /\ RemoteRetried /\ ENABLED VideoCheckFails
  /\ RemoteFailed("submit") =>
       pc = "sub_post" /\ RemoteRetried /\ ENABLED SubmitPostFails
  /\ RemoteFailed("complete") =>
       pc = "comp_auth" /\ RemoteRetried /\ ENABLED CompleteAuthFails
  /\ wire.svc = "auth" /\ wire.ok =>
       token = wire.body /\ pc \in {"vid_check", "append", "sub_post", "comp_post"}
  /\ wire.svc = "exists" /\ wire.ok =>
       /\ chk = wire.body.answer
       /\ IF chk.exists
          THEN payload[Len(payload)] =
                 [sourceVideo |-> wire.body.url, salezVideo |-> chk.salezVideo]
          ELSE pc = "vid_dl"
  /\ wire.svc = "submit" /\ wire.ok => pc \in {"clear", "comp_auth"}
  /\ wire.svc = "complete" /\ wire.ok => pc = "done"

\* Positions of main inside one of the four remote calls.
RemotePcs == {"vid_auth", "vid_check", "sub_auth", "sub_post", "comp_auth", "comp_post"}

\* main is outside the remote calls again and again.
C10_Returns == []<>(pc \notin RemotePcs)

\* C10: a failed request of get_auth_token, check_video_exists, the task
\* submission or complete_task is never raised or returned: the call sleeps
\* 120 seconds and stays at a new attempt, which may fail again; a
\* successful answer is what the call returns, and when the service keeps
\* answering the call returns.
C10_RemoteCallsRetryForever == []C10_NeverGivesUp /\ C10_Returns

C10_Witness ==
  /\ pc = "comp_auth"
  /\ wire = Wire("complete", FALSE, CompletePayload("tok2"))
  /\ slept = RemoteRetryDelay
  /\ logged = "Error in complete_task"
  /\ caught = "none"
  /\ ENABLED CompleteAuthFails

\* Number of records the current run has written, over all output files.
RECURSIVE SavedUpTo(_)
SavedUpTo(c) == IF c = 0 THEN 0 ELSE Len(NewRecords(c)) + SavedUpTo(c - 1)

\* C11: every completion request carries successCount = number of
\* categories of the task and failedCount = 0, however many products the
\* run saved, skipped or lost.
C11_ReportCounts ==
  wire.svc = "complete" =>
    /\ wire.body.successCount = Cardinality(Categories)
    /\ wire.body.failedCount = 0

C11_Witness ==
  /\ pc = "done"
  /\ wire.svc = "complete" /\ wire.ok
  /\ Len(NewRecords(1)) = 2
  /\ SavedUpTo(NumCategories) > wire.body.successCount

\* C12: over a whole run of main exactly one completion request is accepted
\* by the task-completion service (never more than one while the run goes
\* on, one when main has ended), and once complete_task has returned no
\* further completion request is issued.
C12_ReportAcceptedOnce ==
  /\ reports <= 1
  /\ pc = "done" => reports = 1 /\ ~ENABLED Next

\* URLs of the products of the current category saved so far, among the
\* first k iterations, in processing order.
RECURSIVE SavedUrls(_)
SavedUrls(k) ==
  IF k = 0 THEN <<>>
  ELSE IF outcomes[k] = "saved" THEN Append(SavedUrls(k - 1), links[k])
  ELSE SavedUrls(k - 1)

\* C13: within one category the output file is the empty array while the
\* links are harvested, and between two product iterations it holds exactly
\* the records of this category's products saved so far, in processing
\* order.
C13_FileHoldsSavedRecords ==
  /\ pc \in {"harvest", "harvested"} => files[cat] = <<>>
  /\ pc = "loop" =>
       /\ [k \in 1..Len(files[cat]) |-> files[cat][k].url]
            = SavedUrls(Len(outcomes))
       /\ \A k \in 1..Len(files[cat]) : files[cat][k].categorySlug = cat

\* C14: in download_videos a video URL the video-exists service reports as
\* existing with served path x is not downloaded (a download request is made
\* only for the URL the service has just reported as not existing), no file
\* is written for it, the payload gets the entry {sourceVideo: the URL,
\* salezVideo: x} at its end, and the loop goes on with the next video URL
\* (or returns behind the last one).
C14_ExistingVideoReused ==
  [][ /\ wire'.svc = "video" =>
           /\ pc = "vid_dl"
           /\ wire.svc = "exists" /\ wire.ok
           /\ wire.body.url = wire'.body
           /\ ~wire.body.answer.exists
      /\ (wire'.svc = "exists" /\ wire'.ok /\ wire'.body.answer.exists) =>
           /\ pc = "vid_check"
           /\ wire'.body.url = details.videos[idx]
           /\ videoDir' = videoDir
           /\ payload' = Append(payload,
                                [sourceVideo |-> details.videos[idx],
                                 salezVideo |-> wire'.body.answer.salezVideo])
           /\ idx' = idx + 1
           /\ pc' = IF idx < Len(details.videos) THEN "vid_check" ELSE "append"
    ]_vars

C14_Witness ==
  /\ pc = "vid_check" /\ idx = 2
  /\ wire.svc = "exists" /\ wire.ok /\ wire.body.answer.exists
  /\ payload = << [sourceVideo |-> details.videos[1],
                   salezVideo |-> wire.body.answer.salezVideo] >>
  /\ videoDir = {}

\* The name of the idx-th video file of the product at url without its
\* extension: VIDEO_NAME_PREFIX, product id, "_", index.
VideoStem(url, k) == "vid" \o Text(PidOf(url)) \o "_" \o ToString(k)

\* C15: when the download (and, for .webm, the conversion) of a video
\* succeeds, the entry recorded for a .webm source has the served name
\* <stem>.mp4, that file is on disk and the raw <stem>.webm is not; for any
\* other extension the served name is the raw file name, the raw file is on
\* disk and nothing else was written (no conversion).
C15_WebmServedAsMp4 ==
  [][ (pc = "vid_dl" /\ pc' # "except") =>
        LET src == details.videos[idx]
            stem == VideoStem(links[i], idx)
            ext == IF ExtOf(src) = "" THEN ".mp4" ELSE ExtOf(src)
        IN /\ wire' = Wire("video", TRUE, src)
           /\ Len(payload') = Len(payload) + 1
           /\ SubSeq(payload', 1, Len(payload)) = payload
           /\ payload'[Len(payload')].sourceVideo = src
           /\ IF ext = ".webm"
              THEN /\ payload'[Len(payload')].salezVideo = "/vid/" \o stem \o ".mp4"
                   /\ (stem \o ".webm") \notin videoDir'
                   /\ (stem \o ".mp4") \in videoDir'
              ELSE /\ payload'[Len(payload')].salezVideo = "/vid/" \o stem \o ext
                   /\ videoDir' = videoDir \cup {stem \o ext}
    ]_vars

C15_Witness ==
  /\ pc = "vid_check" /\ idx = 2
  /\ wire = Wire("video", TRUE, "/v1.webm")
  /\ payload = << [sourceVideo |-> "/v1.webm",
                   salezVideo |-> "/vid/" \o VideoStem(links[i], 1) \o ".mp4"] >>
  /\ (VideoStem(links[i], 1) \o ".mp4") \in videoDir
  /\ (VideoStem(links[i], 1) \o ".webm") \notin videoDir

\* The first n strings of list, each but the first behind ", ".
RECURSIVE Joined(_, _)
Joined(list, n) ==
  IF n = 0 THEN ""
  ELSE IF n = 1 THEN list[1]
  ELSE Joined(list, n - 1) \o ", " \o list[n]

\* Rows of the specification table whose key is not the SKU, model or brand
\* label, by position in the table.
PlainRows(rows) ==
  {j \in 1..Len(rows) : rows[j].key \notin {"sku", "model", "brand"}}

\* C16: in the flattened record images, moreImages and videos are the
\* served paths of the downloaded lists joined by ", " in list order and
\* sourceImages, sourceMoreImages and sourceVideos the source URLs joined
\* likewise; the i-th row of the table that is not a SKU, model or brand row
\* gives key{i} and value{i} (i from 1), no other key/value field exists
\* (the SKU, model and brand rows give none) and the record has no
\* specifications field.
C16_Flattening ==
  pc = "flat" =>
    LET r == files[cat][Len(files[cat])]
        rows == wire.body.doc.rawSpecs
    IN /\ r.images = Joined([k \in 1..Len(imgs) |-> imgs[k].salezImage], Len(imgs))
       /\ r.sourceImages
            = Joined([k \in 1..Len(imgs) |-> imgs[k].sourceImage], Len(imgs))
       /\ r.moreImages = Joined([k \in 1..Len(more) |-> more[k].salezImage], Len(more))
       /\ r.sourceMoreImages
            = Joined([k \in 1..Len(more) |-> more[k].sourceImage], Len(more))
       /\ r.videos
            = Joined([k \in 1..Len(payload) |-> payload[k].salezVideo], Len(payload))
       /\ r.sourceVideos
            = Joined([k \in 1..Len(payload) |-> payload[k].sourceVideo], Len(payload))
       /\ "specifications" \notin DOMAIN r
       /\ DOMAIN r.keyValues
            = {"key" \o ToString(n) : n \in 1..Cardinality(PlainRows(rows))}
              \cup {"value" \o ToString(n) : n \in 1..Cardinality(PlainRows(rows))}
       /\ \A j \in PlainRows(rows) :
            LET n == Cardinality({m \in PlainRows(rows) : m <= j})
            IN /\ r.keyValues["key" \o ToString(n)] = rows[j].key
               /\ r.keyValues["value" \o ToString(n)] = rows[j].value

C16_Witness ==
  /\ pc = "flat"
  /\ Len(imgs) = 2 /\ imgs[1] # imgs[2]
  /\ wire.body.doc.rawSpecs = << [key |-> "brand", value |-> "acme"],
                                 [key |-> "color", value |-> "red"] >>
  /\ files[cat][1].images = imgs[1].salezImage \o ", " \o imgs[2].salezImage
  /\ files[cat][1].sourceImages = imgs[1].sourceImage \o ", " \o imgs[2].sourceImage
  /\ DOMAIN files[cat][1].keyValues = {"key1", "value1"}
  /\ files[cat][1].keyValues["key1"] = "color"

\* The last maximal run of digits of path, <<>> when path has no digit.
LastDigitRun(path) ==
  LET ds == {k \in 1..Len(path) : path[k] \in Digits}
  IN IF ds = {} THEN <<>>
     ELSE LET e == CHOOSE k \in ds : \A m \in ds : m <= k
              b == Min({k \in 1..e : \A m \in k..e : path[m] \in Digits})
          IN SubSeq(path, b, e)

\* C17: the productNumber of the record get_product_details returns is the
\* last run of digits of the URL path (an extension may follow it), and is
\* empty exactly when the path has no digit.
C17_ProductNumberIsLastRun ==
  pc = "parsed" =>
    LET path == UrlPath(wire.body.url)
    IN /\ details.productNumber = LastDigitRun(path)
       /\ details.productNumber = <<>> <=> Range(path) \cap Digits = {}

\* A number written with "," between groups of digits and at most one
\* decimal point, behind all the ",".
IsNumber(num) ==
  /\ num # <<>>
  /\ num[1] \in Digits /\ num[Len(num)] \in Digits
  /\ \A k \in 1..Len(num) : num[k] \in Digits \cup {",", "."}
  /\ \A k \in 1..(Len(num) - 1) : num[k] \in Digits \/ num[k + 1] \in Digits
  /\ \A k, m \in 1..Len(num) : num[k] = "." /\ m > k => num[m] \in Digits

\* A price text: one number, which may hold non-breaking spaces, narrow
\* spaces and directional marks, with a currency sign, spaces and marks
\* before or behind it.
IsPriceText(text) ==
  LET shown == SelectSeq(text, LAMBDA ch : ch \notin {"nbsp", "nnbsp", "rlm"})
      ps == {k \in 1..Len(shown) : shown[k] \in Digits \cup {",", "."}}
  IN /\ ps # {}
     /\ \A k \in 1..Len(shown) :
          (\E a, b \in ps : a <= k /\ k <= b) => k \in ps
     /\ IsNumber(SelectSeq(shown, LAMBDA ch : ch \in Digits \cup {",", "."}))

\* C18: for every price text (a number with thousands separators, with
\* non-breaking or narrow spaces and marks in or around it) the cleaned
\* price is made of digits and at most one decimal point and is the number
\* without its separators; a missing price element gives the empty string.
C18_PriceCleaning ==
  pc \in {"parsed", "flat"} =>
    LET el == wire.body.doc.finalPrice
    IN /\ ~el.present => details.price = <<>>
       /\ (el.present /\ IsPriceText(el.text)) =>
            /\ details.price
                 = SelectSeq(el.text, LAMBDA ch : ch \in Digits \cup {"."})
            /\ \A k \in 1..Len(details.price) :
                 details.price[k] \in Digits \cup {"."}
            /\ Cardinality({k \in 1..Len(details.price) :
                              details.price[k] = "."}) <= 1

C18_Witness ==
  /\ pc = "parsed"
  /\ wire.body.doc.finalPrice
       = Element(<<"rlm", "1", "nnbsp", "2", ",", "1", ".", "2", "nbsp", "cur">>)
  /\ details.price = <<"1", "2", "1", ".", "2">>

\* C19: the record get_product_details returns carries a price field and an
\* oldPrice field, oldPrice being the cleaned text of the old-price element
\* ("" when the element is absent), and so does the record written to the
\* output file.
C19_PriceAndOldPrice ==
  /\ pc \in {"parsed", "flat"} =>
       /\ {"price", "oldPrice"} \subseteq DOMAIN details
       /\ details.oldPrice = CleanPrice(wire.body.doc.oldPrice)
  /\ pc = "flat" =>
       {"price", "oldPrice"} \subseteq DOMAIN files[cat][Len(files[cat])]

\* The step of its category main is at: 1 clear, 2 harvest, 3 product loop,
\* 4 task submission; 5 behind the last category.
Stage(p) ==
  CASE p = "clear" -> 1
    [] p \in {"harvest", "harvested"} -> 2
    [] p \in {"loop", "scrape", "checkpn", "images", "vid_auth", "vid_check",
              "vid_dl", "append", "except"} -> 3
    [] p \in {"sub_auth", "sub_post"} -> 4
    [] OTHER -> 5

\* The step of one product iteration: 1 extract, 2 productNumber test,
\* 3 images, 4 videos, 5 flatten and append; 0 between two iterations.
ProductStage(p) ==
  CASE p = "scrape" -> 1
    [] p = "checkpn" -> 2
    [] p = "images" -> 3
    [] p \in {"vid_auth", "vid_check", "vid_dl"} -> 4
    [] p = "append" -> 5
    [] OTHER -> 0

\* C20: within one category main goes through clear, harvest, product loop
\* and task submission in this order, one after the other, and through
\* extract, productNumber test, media downloads and flatten/append in this
\* order inside one product iteration; a file changes only in the clear
\* step and the append steps of its own category (hence not before its
\* clear step, and not once the submission of its category has begun); the
\* next category starts only with the successful return of the
\* task-submission call of the current one.
C20_StepOrder ==
  [][ /\ cat' = cat => Stage(pc') \in {Stage(pc), Stage(pc) + 1}
      /\ cat' # cat =>
           /\ pc = "sub_post"
           /\ wire' = Wire("submit", TRUE, [token |-> token, category |-> cat])
           /\ cat' = cat + 1
           /\ pc' = IF cat' \in Categories THEN "clear" ELSE "comp_auth"
      /\ pc' = "clear" => cat' # cat
      /\ (Stage(pc) = 3 /\ ProductStage(pc') # 0) =>
           /\ ProductStage(pc') \in {ProductStage(pc), ProductStage(pc) + 1}
           /\ i' = i /\ i \in 1..Len(links)
      /\ (pc = "checkpn" /\ details.productNumber = <<>>) => pc' = "loop"
      /\ \A c \in Categories :
           files'[c] # files[c] =>
             /\ c = cat
             /\ \/ pc = "clear" /\ files'[c] = <<>>
                \/ pc = "append" /\ files'[c] = Append(files[c], FlatRecord)
    ]_vars

C20_Witness ==
  /\ cat = 2 /\ pc = "sub_post"
  /\ NewRecords(1) # <<>> /\ NewRecords(2) # <<>>
  /\ \A c \in Categories : files[c] = NewRecords(c)

\* C21: the task-submission function is called exactly once for every
\* category, behind the product loop of that category: never for a category
\* main has not reached, not before the loop of the current category has
\* ended, once from then on; a call is made only at the end of the loop,
\* whatever the harvest returned and whatever happened to the file.
C21_SubmittedOncePerCategory ==
  [][ /\ \A c \in Categories :
           submissions[c] = IF c < cat \/ (c = cat /\ Stage(pc) = 4) THEN 1 ELSE 0
      /\ submissions' # submissions =>
           /\ pc = "loop" /\ i = Len(links) + 1 /\ pc' = "sub_auth"
           /\ submissions' = [submissions EXCEPT ![cat] = 1]
      /\ (pc = "loop" /\ i > Len(links)) => submissions' # submissions
    ]_vars

C21_Witness ==
  /\ cat = 2 /\ pc = "sub_auth"
  /\ links = <<>>
  /\ files[2] = OldFile
  /\ \A k \in 1..Len(files[1]) : files[1][k].categorySlug # 1
  /\ submissions = [c \in Categories |-> 1]

\* Outcomes of an iteration the claim of C22 sets aside: the scrape failed,
\* a video download or convert step failed, the file could not be written.
SetAside == Exceptions \cup {"VideoError", "append_failed"}

\* C22: between two iterations, every URL processed so far whose scrape
\* succeeded with a non-empty productNumber, whose video steps did not fail
\* and whose append could write the file has exactly one record in the
\* output file of the category, whatever the shape of its path.
C22_OneRecordPerGoodUrl ==
  pc = "loop" =>
    \A k \in 1..Len(outcomes) :
      (outcomes[k] \notin SetAside /\ ProductNumberOf(UrlPath(links[k])) # <<>>) =>
        /\ outcomes[k] = "saved"
        /\ Cardinality({n \in 1..Len(files[cat]) :
                          /\ files[cat][n].categorySlug = cat
                          /\ files[cat][n].url = links[k]}) = 1

\* C23: inside the task-submission call and inside check_video_exists every
\* request carries the token the caller held when the first attempt was
\* made: a rejected request leaves the call where it is with the same
\* token, no auth request is made from inside the retry loop, and the call
\* is left only by an accepted request that carries this token (or, in
\* download_videos, not at all by a rejected one).  In complete_task every
\* request carries the token of the auth request made just before it, and
\* a rejected request leads to a new auth request.
C23_TokenReuse ==
  [][ /\ wire'.svc \in {"submit", "exists"} =>
           /\ pc = IF wire'.svc = "submit" THEN "sub_post" ELSE "vid_check"
           /\ wire'.body.token = token
           /\ token \in Tokens
           /\ ~wire'.ok => pc' = pc /\ token' = token
      /\ pc \in {"sub_post", "vid_check"} =>
           /\ wire'.svc # "auth"
           /\ pc' # pc => wire'.svc \in {"submit", "exists"} /\ wire'.ok
      /\ wire'.svc = "complete" =>
           /\ pc = "comp_post"
           /\ wire = Wire("auth", TRUE, token)
           /\ wire'.body.token = token
           /\ ~wire'.ok => pc' = "comp_auth"
      /\ pc = "comp_auth" => wire'.svc = "auth"
    ]_vars

C23_Witness ==
  /\ pc = "sub_post"
  /\ token = "tok1"
  /\ wire = Wire("submit", FALSE, [token |-> "tok1", category |-> cat])
  /\ slept = RemoteRetryDelay
  /\ ENABLED SubmitPostFails
  /\ ~ENABLED SubmitAuthSucceeds

\* The srcs of the image requests made for the current product in phase ph.
RequestedIn(ph) ==
  LET t == SelectSeq(tried, LAMBDA r : r.phase = ph)
  IN [k \in 1..Len(t) |-> t[k].src]

\* C24: download_videos obtains its token once per product: the auth
\* requests of a product are made when both image lists have been gone
\* through and returned and before any video URL is looked at, with no
\* token held yet, also when the video list is empty; once the token is
\* there no further auth request is made for the product; a failed auth
\* request leaves the product where it is, and a record is appended only
\* by a product that holds its token.
C24_TokenOncePerProduct ==
  [][ /\ (wire'.svc = "auth" /\ Stage(pc) = 3) =>
           /\ pc = "vid_auth"
           /\ token = "none"
           /\ payload = <<>> /\ idx = 1 /\ wire.svc \notin {"exists", "video"}
           /\ RequestedIn("images") = details.images
           /\ RequestedIn("more") = details.moreImages
           /\ imgs' = imgs /\ more' = more
           /\ IF wire'.ok
              THEN /\ token' = wire'.body
                   /\ pc' = IF details.videos = <<>> THEN "append" ELSE "vid_check"
              ELSE pc' = "vid_auth" /\ token' = "none" /\ files' = files
      /\ pc' = "vid_auth" => pc \in {"images", "vid_auth"}
      /\ pc \in {"vid_check", "vid_dl", "append"} => token \in Tokens
      /\ pc = "vid_auth" => wire'.svc = "auth"
      /\ (Stage(pc) = 3 /\ files' # files) => pc = "append" /\ token \in Tokens
    ]_vars

C24_Witness ==
  /\ pc = "append"
  /\ details.videos = <<>>
  /\ wire = Wire("auth", TRUE, token)
  /\ token \in Tokens
  /\ slept = 0
  /\ imgs # <<>>
  /\ RequestedIn("images") = details.images

====
